---- MODULE Spec2Model ----
(***************************************************************************)
(* Model of the two provisioning utilities of community-pulse:            *)
(*   .github/scripts/extract_plist.py  (Plist Extractor)                   *)
(*   scripts/clean_secrets.py          (Secret Cleaner)                    *)
(* A behaviour is one run of one of the two scripts.  Files are byte /    *)
(* character sequences (sequences of one-character strings); the regular  *)
(* expression searches are computed position by position, the way the     *)
(* regex engine scans.                                                     *)
(***************************************************************************)
EXTENDS Integers, Sequences, FiniteSets, TLC

VARIABLES
    tool,       \* which script this run executes: "extract" or "clean"
    pc,         \* position of the script
    argv,       \* sys.argv[1:] of the extractor (paths)
    fs,         \* the file system: path -> [exists, bytes]
    data,       \* extract_plist.py: the bytes read from input_file
    match,      \* extract_plist.py: the result of re.search
    fileIdx,    \* clean_secrets.py: index in `files` of the loop variable
    clean_b64,  \* clean_secrets.py: value returned by clean_rtf_to_base64
    stdout,     \* the lines printed so far
    stderr,     \* the uncaught exceptions reported by the interpreter
    exitStatus, \* the exit status of the process (meaningful when pc = "exit")
    writes      \* the paths opened for writing and written so far, in order

vars == <<tool, pc, argv, fs, data, match, fileIdx, clean_b64, stdout, stderr,
          exitStatus, writes>>

-----------------------------------------------------------------------------
(* Bounds of the model *)

\* longest extractor input, counted in chunks of ExtractChunks
MaxChunks == 5
\* longest cleaner document, counted in chunks of CleanChunks
MaxParts == 4
\* most command-line arguments given to the extractor
MaxArgs == 3

-----------------------------------------------------------------------------
(* Generic helpers on sequences *)

Min(S) == CHOOSE x \in S : \A y \in S : x <= y

Max(S) == CHOOSE x \in S : \A y \in S : x >= y

\* Python slice s[a:b] for 0 <= a (0-based, end exclusive, clipped to len(s))
Slice(s, a, b) ==
    LET hi == IF b < Len(s) THEN b ELSE Len(s)
    IN  IF a >= hi THEN <<>> ELSE SubSeq(s, a + 1, hi)

\* pat occurs in s at 0-based offset i
OccursAt(s, pat, i) ==
    /\ i >= 0
    /\ i + Len(pat) <= Len(s)
    /\ SubSeq(s, i + 1, i + Len(pat)) = pat

\* the 0-based offsets at which pat occurs in s
Occurrences(s, pat) == {i \in 0..Len(s) : OccursAt(s, pat, i)}

\* bytes.index(pat): offset of the first occurrence
Index(s, pat) == Min(Occurrences(s, pat))

\* bytes.rindex(pat): offset of the last occurrence
RIndex(s, pat) == Max(Occurrences(s, pat))

\* pat in s
Contains(s, pat) == Occurrences(s, pat) # {}

\* every concatenation of at most n chunks
RECURSIVE ChunkSeqs(_, _)
ChunkSeqs(chunks, n) ==
    IF n = 0 THEN {<<>>}
    ELSE LET P == ChunkSeqs(chunks, n - 1)
         IN  P \cup {p \o c : p \in P, c \in chunks}

\* a file of the file system
File(b) == [exists |-> TRUE, bytes |-> b]

NoFile == [exists |-> FALSE, bytes |-> <<>>]

\* one printed line
Line(m, f, n, b) == [msg |-> m, file |-> f, n |-> n, bytes |-> b]

\* an uncaught exception: the interpreter prints the traceback and exits 1
UncaughtExit == 1

-----------------------------------------------------------------------------
(* extract_plist.py *)

XmlMarker == <<"<", "?", "x", "m", "l">>

PlistEnd == <<"<", "/", "p", "l", "i", "s", "t", ">">>

SampleLen == 100

TailLen == 200

NoMatch == [found |-> FALSE, start |-> 0, end |-> 0]

\* the offsets >= from at which the closing tag occurs: the places where
\* `.*` (DOTALL: any byte, newline included) can hand over to `</plist>`
ClosersFrom(s, from) == {j \in from..Len(s) : OccursAt(s, PlistEnd, j)}

\* the lazy `.*?`: the match ends with the first closing tag
PickCloser_Lazy(J) == Min(J)

\* `.*` is greedy: the engine tries the longest `.*` first and backtracks,
\* so the match ends with the last closing tag
PickCloser(J) == Max(J)

\* the match of rb'<\?xml.*</plist>' anchored at offset i, if any
MatchAt(s, i) ==
    IF ~OccursAt(s, XmlMarker, i) THEN NoMatch
    ELSE LET J == ClosersFrom(s, i + Len(XmlMarker))
         IN  IF J = {} THEN NoMatch
             ELSE [found |-> TRUE, start |-> i,
                   end |-> PickCloser(J) + Len(PlistEnd)]

\* re.search: the match at the leftmost offset that has one
RECURSIVE SearchFrom(_, _)
SearchFrom(s, i) ==
    IF i > Len(s) THEN NoMatch
    ELSE LET m == MatchAt(s, i)
         IN  IF m.found THEN m ELSE SearchFrom(s, i + 1)

SearchPlist(s) == SearchFrom(s, 0)

\* the whole input in place of the matched bytes
Group0_WholeData(s, m) == s

\* match.group(0)
Group0(s, m) == Slice(s, m.start, m.end)

ExtractChunks == {XmlMarker, PlistEnd, <<"x">>, <<"<">>}

ExtractInputs == ChunkSeqs(ExtractChunks, MaxChunks)

ExtractPaths == {"a", "b"}

\* sys.argv[1:]: up to MaxArgs arguments; every pair of paths, and one
\* argument list of each other length (the script reads only their number)
ArgvSet ==
    [1..2 -> ExtractPaths] \cup {[k \in 1..n |-> "a"] : n \in (0..MaxArgs) \ {2}}

InitExtract ==
    /\ tool = "extract"
    /\ pc = "args"
    /\ argv \in ArgvSet
    /\ \E a \in {File(b) : b \in ExtractInputs} \cup {NoFile},
          b \in {NoFile, File(<<"o", "l", "d">>)} :
          fs = [p \in ExtractPaths |-> IF p = "a" THEN a ELSE b]
    /\ data = <<>>
    /\ match = NoMatch
    /\ fileIdx = 0
    /\ clean_b64 = [none |-> TRUE, text |-> <<>>]
    /\ stdout = <<>>
    /\ stderr = <<>>
    /\ exitStatus = 0
    /\ writes = <<>>

\* a check that only catches missing arguments
ArgCountWrong_TooFew(args) == Len(args) + 1 < 3

\* line 6: len(sys.argv) != 3 (sys.argv[0] is the program)
ArgCountWrong(args) == Len(args) + 1 # 3

input_file == argv[1]

output_file == argv[2]

\* lines 6-8: the usage check
CheckArgs ==
    /\ tool = "extract" /\ pc = "args"
    /\ IF ArgCountWrong(argv)
       THEN /\ stdout' = Append(stdout, Line("Usage", "", 0, <<>>))
            /\ exitStatus' = 1
            /\ pc' = "exit"
       ELSE /\ pc' = "read"
            /\ UNCHANGED <<stdout, exitStatus>>
    /\ UNCHANGED <<tool, argv, fs, data, match, fileIdx, clean_b64, stderr, writes>>

\* lines 13-16: open(input_file, 'rb') and read
ReadInput ==
    /\ tool = "extract" /\ pc = "read"
    /\ IF fs[input_file].exists
       THEN /\ data' = fs[input_file].bytes
            /\ stdout' = Append(stdout,
                   Line("Read", input_file, Len(fs[input_file].bytes), <<>>))
            /\ pc' = "search"
            /\ UNCHANGED <<stderr, exitStatus>>
       ELSE /\ stderr' = Append(stderr, "FileNotFoundError")
            /\ exitStatus' = UncaughtExit
            /\ pc' = "exit"
            /\ UNCHANGED <<data, stdout>>
    /\ UNCHANGED <<tool, argv, fs, match, fileIdx, clean_b64, writes>>

\* lines 20-21: re.search(pattern, data, re.DOTALL)
Search ==
    /\ tool = "extract" /\ pc = "search"
    /\ match' = SearchPlist(data)
    /\ pc' = "branch"
    /\ UNCHANGED <<tool, argv, fs, data, fileIdx, clean_b64, stdout, stderr,
                   exitStatus, writes>>

\* lines 23-29: the match branch
WriteOutput ==
    /\ tool = "extract" /\ pc = "branch" /\ match.found
    /\ LET xml_content == Group0(data, match)
       IN  /\ fs' = [fs EXCEPT ![output_file] = File(xml_content)]
           /\ writes' = Append(writes, output_file)
           /\ stdout' = stdout \o
                  <<Line("Found", "", Len(xml_content), <<match.start>>),
                    Line("Wrote", output_file, 0, <<>>)>>
    /\ exitStatus' = 0
    /\ pc' = "exit"
    /\ UNCHANGED <<tool, argv, data, match, fileIdx, clean_b64, stderr>>

\* the diagnostics about the XML declaration without their else branch
XmlDiagnostics_Silent(s) ==
    IF Contains(s, XmlMarker)
    THEN LET idx == Index(s, XmlMarker)
         IN  <<Line("Found <?xml at offset", "", idx, <<>>),
               Line("Start sample", "", 0, Slice(s, idx, idx + SampleLen))>>
    ELSE <<>>

\* lines 33-39: the diagnostics about the XML declaration
XmlDiagnostics(s) ==
    IF Contains(s, XmlMarker)
    THEN LET idx == Index(s, XmlMarker)
         IN  <<Line("Found <?xml at offset", "", idx, <<>>),
               Line("Start sample", "", 0, Slice(s, idx, idx + SampleLen))>>
    ELSE <<Line("NO <?xml found in data!", "", 0, <<>>)>>

\* lines 41-47: the diagnostics about the closing tag
PlistDiagnostics(s) ==
    IF Contains(s, PlistEnd)
    THEN <<Line("Found </plist> at offset", "", RIndex(s, PlistEnd), <<>>)>>
    ELSE <<Line("NO </plist> found in data!", "", 0, <<>>),
           Line("Last 200 bytes", "", 0,
                Slice(s, IF Len(s) > TailLen THEN Len(s) - TailLen ELSE 0, Len(s)))>>

\* a no-match branch that has opened the output file for writing
ReportFailure_CreatesOutput ==
    /\ tool = "extract" /\ pc = "branch" /\ ~match.found
    /\ fs' = [fs EXCEPT ![output_file] = File(<<>>)]
    /\ writes' = Append(writes, output_file)
    /\ stdout' = stdout
           \o <<Line("ERROR: Could not find XML plist in data", "", 0, <<>>)>>
           \o XmlDiagnostics(data)
           \o PlistDiagnostics(data)
           \o <<Line("Total file size", "", Len(data), <<>>)>>
    /\ exitStatus' = 1
    /\ pc' = "exit"
    /\ UNCHANGED <<tool, argv, data, match, fileIdx, clean_b64, stderr>>

\* lines 30-51: the no-match branch
ReportFailure ==
    /\ tool = "extract" /\ pc = "branch" /\ ~match.found
    /\ stdout' = stdout
           \o <<Line("ERROR: Could not find XML plist in data", "", 0, <<>>)>>
           \o XmlDiagnostics(data)
           \o PlistDiagnostics(data)
           \o <<Line("Total file size", "", Len(data), <<>>)>>
    /\ exitStatus' = 1
    /\ pc' = "exit"
    /\ UNCHANGED <<tool, argv, fs, data, match, fileIdx, clean_b64, stderr, writes>>

-----------------------------------------------------------------------------
(* clean_secrets.py *)

Upper == {"A", "B", "C", "D", "E", "F", "G", "H", "I", "J", "K", "L", "M",
          "N", "O", "P", "Q", "R", "S", "T", "U", "V", "W", "X", "Y", "Z"}

Lower == {"a", "b", "c", "d", "e", "f", "g", "h", "i", "j", "k", "l", "m",
          "n", "o", "p", "q", "r", "s", "t", "u", "v", "w", "x", "y", "z"}

Digits == {"0", "1", "2", "3", "4", "5", "6", "7", "8", "9"}

\* [A-Za-z0-9+/=]
Base64Alphabet == Upper \cup Lower \cup Digits \cup {"+", "/", "="}

\* the class without the space
RunClass_NoSpace == Base64Alphabet \cup {"\r", "\n", "\\"}

\* the character class of line 14: [A-Za-z0-9+/= \r\n\\]
RunClass == Base64Alphabet \cup {" ", "\r", "\n", "\\"}

\* the character class of line 20: [\r\n\s\\]  (\s: white space)
StripClass == {"\r", "\n", "\\", " ", "\t", "\f"}

Prefix == <<"M", "I", "I">>

\* open(filepath, 'r'): text mode with universal newlines turns "\r\n" and a
\* lone "\r" into "\n"
RECURSIVE UniversalNewlines(_)
UniversalNewlines(b) ==
    IF b = <<>> THEN <<>>
    ELSE IF Head(b) = "\r"
         THEN IF Len(b) >= 2 /\ b[2] = "\n"
              THEN <<"\n">> \o UniversalNewlines(SubSeq(b, 3, Len(b)))
              ELSE <<"\n">> \o UniversalNewlines(Tail(b))
         ELSE <<Head(b)>> \o UniversalNewlines(Tail(b))

\* open(out_path, 'w'): text mode writes "\n" as the line separator of the
\* platform (base_dir is a Windows path: "\r\n")
RECURSIVE WriteText(_)
WriteText(t) ==
    IF t = <<>> THEN <<>>
    ELSE IF Head(t) = "\n"
         THEN <<"\r", "\n">> \o WriteText(Tail(t))
         ELSE <<Head(t)>> \o WriteText(Tail(t))

\* `[...]+` is greedy: from offset j on, the run extends while the next
\* character is in the class; the result is the offset after the run
RECURSIVE RunEnd(_, _)
RunEnd(s, j) ==
    IF j < Len(s) /\ s[j + 1] \in RunClass THEN RunEnd(s, j + 1) ELSE j

\* `*` in place of `+`: the bare prefix matches
RunLongEnough_Star(i, e) == e >= i + Len(Prefix)

\* `+` asks for at least one character of the class after the prefix
RunLongEnough(i, e) == e >= i + Len(Prefix) + 1

\* the match of r'MII[A-Za-z0-9+/= \r\n\\]+' anchored at offset i, if any
RunAt(s, i) ==
    IF ~OccursAt(s, Prefix, i) THEN NoMatch
    ELSE LET e == RunEnd(s, i + Len(Prefix))
         IN  IF RunLongEnough(i, e)
             THEN [found |-> TRUE, start |-> i, end |-> e]
             ELSE NoMatch

\* re.search: the match at the leftmost offset that has one
RECURSIVE SearchRunFrom(_, _)
SearchRunFrom(s, i) ==
    IF i > Len(s) THEN NoMatch
    ELSE LET m == RunAt(s, i)
         IN  IF m.found THEN m ELSE SearchRunFrom(s, i + 1)

SearchRun(s) == SearchRunFrom(s, 0)

\* the class [\r\n\\], without \s
Stripped_NoSpace(c) == c \in {"\r", "\n", "\\"}

\* the characters re.sub deletes
Stripped(c) == c \in StripClass

\* re.sub with ' ' as the replacement
RECURSIVE Sub_Blank(_)
Sub_Blank(t) ==
    IF t = <<>> THEN <<>>
    ELSE IF Stripped(Head(t)) THEN <<" ">> \o Sub_Blank(Tail(t))
         ELSE <<Head(t)>> \o Sub_Blank(Tail(t))

\* re.sub(r'[\r\n\s\\]', '', raw_text)
RECURSIVE Sub(_)
Sub(t) ==
    IF t = <<>> THEN <<>>
    ELSE IF Stripped(Head(t)) THEN Sub(Tail(t))
         ELSE <<Head(t)>> \o Sub(Tail(t))

None == [none |-> TRUE, text |-> <<>>]

Str(t) == [none |-> FALSE, text |-> t]

\* lines 14-21 of clean_rtf_to_base64, on the content read
CleanContent(content) ==
    LET m == SearchRun(content)
    IN  IF ~m.found THEN None
        ELSE Str(Sub(Slice(content, m.start, m.end)))

\* `if clean_b64:` None and the empty string are false
Truthy(v) == ~v.none /\ v.text # <<>>

base_dir == "c:\\Users\\adity\\Downloads\\App5156\\community-pulse\\iOS Secrets"

files == <<"p12_base64.txt.rtf", "profile_base64.txt.rtf">>

\* os.path.join(base_dir, filename)
Join(d, f) == <<d, f>>

\* os.path.basename
Basename(p) == p[2]

\* filename.replace(".txt.rtf", "_clean.txt") on the names of `files`
OutName(f) ==
    CASE f = "p12_base64.txt.rtf" -> "p12_base64_clean.txt"
      [] f = "profile_base64.txt.rtf" -> "profile_base64_clean.txt"

InPath(k) == Join(base_dir, files[k])

OutPath(k) == Join(base_dir, OutName(files[k]))

CleanPaths == {InPath(k) : k \in 1..Len(files)} \cup {OutPath(k) : k \in 1..Len(files)}

CleanChunks == {Prefix, <<"A">>, <<"\\">>, <<" ">>, <<"\n">>, <<"\r", "\n">>, <<"{">>}

CleanDocs == ChunkSeqs(CleanChunks, MaxParts)

\* the documents given to the later files of the list
LaterDocs == {<<"{", "\\", "r", "t", "f", "1", " ", "M", "I", "M", "I", "I", "}">>,
              <<"\\", "c", "f", "0", " ", "M", "I", "I", " ", "B", "\\", "\n", "+", "=", "}">>}

InitClean ==
    /\ tool = "clean"
    /\ pc = "for"
    /\ argv = <<>>
    /\ \E first \in {File(b) : b \in CleanDocs} \cup {NoFile},
          later \in {File(b) : b \in LaterDocs} \cup {NoFile} :
          fs = [p \in CleanPaths |->
                   IF p = InPath(1) THEN first
                   ELSE IF p \in {InPath(k) : k \in 1..Len(files)} THEN later
                   ELSE NoFile]
    /\ data = <<>>
    /\ match = NoMatch
    /\ fileIdx = 0
    /\ clean_b64 = None
    /\ stdout = <<>>
    /\ stderr = <<>>
    /\ exitStatus = 0
    /\ writes = <<>>

\* line 26: `for filename in files` takes the next file, or the script ends
ForNext ==
    /\ tool = "clean" /\ pc = "for"
    /\ IF fileIdx < Len(files)
       THEN /\ fileIdx' = fileIdx + 1
            /\ pc' = "call"
            /\ UNCHANGED exitStatus
       ELSE /\ exitStatus' = 0
            /\ pc' = "exit"
            /\ UNCHANGED fileIdx
    /\ UNCHANGED <<tool, argv, fs, data, match, clean_b64, stdout, stderr, writes>>

\* lines 27-28 and 4-21: clean_b64 = clean_rtf_to_base64(path)
CallClean ==
    /\ tool = "clean" /\ pc = "call"
    /\ IF fs[InPath(fileIdx)].exists
       THEN /\ clean_b64' = CleanContent(UniversalNewlines(fs[InPath(fileIdx)].bytes))
            /\ pc' = "branch"
            /\ UNCHANGED <<stderr, exitStatus>>
       ELSE /\ stderr' = Append(stderr, "FileNotFoundError")
            /\ exitStatus' = UncaughtExit
            /\ pc' = "exit"
            /\ UNCHANGED clean_b64
    /\ UNCHANGED <<tool, argv, fs, data, match, fileIdx, stdout, writes>>

\* lines 29-33: the result is written and reported
WriteClean ==
    /\ tool = "clean" /\ pc = "branch" /\ Truthy(clean_b64)
    /\ fs' = [fs EXCEPT ![OutPath(fileIdx)] = File(WriteText(clean_b64.text))]
    /\ writes' = Append(writes, OutPath(fileIdx))
    /\ stdout' = Append(stdout,
           Line("Cleaned", files[fileIdx], 0, <<Basename(OutPath(fileIdx))>>))
    /\ pc' = "for"
    /\ UNCHANGED <<tool, argv, data, match, fileIdx, clean_b64, stderr, exitStatus>>

\* lines 34-35: the failure is reported
ReportFailed ==
    /\ tool = "clean" /\ pc = "branch" /\ ~Truthy(clean_b64)
    /\ stdout' = Append(stdout, Line("Failed to clean", files[fileIdx], 0, <<>>))
    /\ pc' = "for"
    /\ UNCHANGED <<tool, argv, fs, data, match, fileIdx, clean_b64, stderr,
                   exitStatus, writes>>

-----------------------------------------------------------------------------

Init == InitExtract \/ InitClean

Next ==
    \/ CheckArgs
    \/ ReadInput
    \/ Search
    \/ WriteOutput
    \/ ReportFailure
    \/ ForNext
    \/ CallClean
    \/ WriteClean
    \/ ReportFailed

Spec == Init /\ [][Next]_vars

-----------------------------------------------------------------------------
(* Vocabulary of the properties *)

\* the extractor has read its input: `data` holds the bytes of the input file
InputRead ==
    /\ tool = "extract"
    /\ Len(argv) = 2
    /\ pc \in {"search", "branch", "exit"}
    /\ stderr = <<>>

\* the extractor has ended after reading its input
ExtractEnded == InputRead /\ pc = "exit"

\* the spans of s that start with `<?xml` and end with `</plist>`, as pairs
\* <<offset of the first byte, offset after the last byte>>
Spans(s) ==
    {<<a, b>> \in (0..Len(s)) \X (0..Len(s)) :
        /\ OccursAt(s, XmlMarker, a)
        /\ OccursAt(s, PlistEnd, b - Len(PlistEnd))
        /\ a + Len(XmlMarker) <= b - Len(PlistEnd)}

\* some line of stdout carries message m
Printed(m) == \E n \in 1..Len(stdout) : stdout[n].msg = m

\* the path p is in the log of writes
Written(p) == \E n \in 1..Len(writes) : writes[n] = p

\* t is s with some characters deleted (greedy left-to-right embedding)
RECURSIVE IsSubsequence(_, _)
IsSubsequence(t, s) ==
    IF t = <<>> THEN TRUE
    ELSE IF s = <<>> THEN FALSE
    ELSE IF Head(t) = Head(s) THEN IsSubsequence(Tail(t), Tail(s))
    ELSE IsSubsequence(t, Tail(s))

-----------------------------------------------------------------------------
(* C1 *)

\* C1 (as stated): when the input holds a span from `<?xml` to `</plist>`,
\* the run succeeds and the bytes written are exactly that span, whichever
\* span of the input it is.
C1_ExactlyThatSpan ==
    ExtractEnded =>
        \A sp \in Spans(data) :
            /\ exitStatus = 0
            /\ fs[output_file] = File(Slice(data, sp[1], sp[2]))

\* C1 (amended): when the input holds a span from `<?xml` to `</plist>`, the
\* run succeeds and the bytes written are the widest span: from the first
\* `<?xml` that opens a span to the end of the last `</plist>`, unaltered,
\* with nothing before or after; an input holding exactly one span yields
\* exactly that span.
C1_WidestSpan ==
    ExtractEnded /\ Spans(data) # {} =>
        LET first == Min({sp[1] : sp \in Spans(data)})
            last  == Max({sp[2] : sp \in Spans(data)})
        IN  /\ exitStatus = 0
            /\ fs[output_file].exists
            /\ fs[output_file].bytes = SubSeq(data, first + 1, last)
            /\ \A sp \in Spans(data) :
                   Spans(data) = {sp} =>
                       fs[output_file].bytes = SubSeq(data, sp[1] + 1, sp[2])

\* C1 witness: a successful run on an input with exactly one span and bytes
\* of the container on both sides of it
C1_Witness ==
    /\ ExtractEnded /\ exitStatus = 0
    /\ Cardinality(Spans(data)) = 1
    /\ match.start > 0 /\ match.end < Len(data)
    /\ Len(fs[output_file].bytes) < Len(data)

-----------------------------------------------------------------------------
(* C2 *)

\* C2: the extractor ends with status 0 exactly when a span was found and
\* written to the output path; with an argument count other than two it ends
\* with status 1 having printed the usage line only, no file read or written;
\* with no span in the input it ends with status 1; no other status occurs.
C2_ExitStatus ==
    tool = "extract" /\ pc = "exit" =>
        /\ exitStatus \in {0, 1}
        /\ exitStatus = 0 <=>
               /\ InputRead
               /\ Spans(data) # {}
               /\ writes = <<output_file>>
               /\ \E sp \in Spans(data) :
                      fs[output_file] = File(SubSeq(data, sp[1] + 1, sp[2]))
        /\ Len(argv) # 2 =>
               /\ exitStatus = 1
               /\ Len(stdout) = 1 /\ stdout[1].msg = "Usage"
               /\ data = <<>> /\ writes = <<>> /\ stderr = <<>>
        /\ InputRead /\ Spans(data) = {} => exitStatus = 1

\* C2 witness: a run given three arguments, ended by the usage check although
\* its first argument names a file that holds a span
C2_Witness ==
    /\ tool = "extract" /\ pc = "exit" /\ exitStatus = 1
    /\ Len(argv) = 3
    /\ fs[argv[1]].exists /\ Spans(fs[argv[1]].bytes) # {}

-----------------------------------------------------------------------------
(* C3 *)

\* C3: on an input without the `<?xml` marker the extractor ends with status
\* 1 and has printed the line "NO <?xml found in data!", whether or not the
\* input holds `</plist>`.
C3_NoXmlMarker ==
    ExtractEnded /\ ~Contains(data, XmlMarker) =>
        /\ exitStatus = 1
        /\ Printed("NO <?xml found in data!")
        /\ ~Printed("Found <?xml at offset")

\* C3 witness: a failed run on an input that holds `</plist>` but no `<?xml`
C3_Witness ==
    /\ ExtractEnded /\ exitStatus = 1
    /\ ~Contains(data, XmlMarker)
    /\ Contains(data, PlistEnd)

-----------------------------------------------------------------------------
(* C8 *)

\* C8: the extraction succeeds exactly when some `</plist>` begins at or
\* after the end of the first `<?xml` of the input; the span written then
\* starts at the first `<?xml` and ends with the last `</plist>` of the input.
C8_SpanBoundaries ==
    ExtractEnded =>
        LET ok == /\ Contains(data, XmlMarker)
                  /\ \E j \in Occurrences(data, PlistEnd) :
                         j >= Index(data, XmlMarker) + Len(XmlMarker)
        IN  /\ exitStatus = 0 <=> ok
            /\ ~ok => exitStatus = 1 /\ ~match.found
            /\ ok =>
                  /\ match.found
                  /\ match.start = Index(data, XmlMarker)
                  /\ match.end = RIndex(data, PlistEnd) + Len(PlistEnd)
                  /\ fs[output_file].bytes =
                         SubSeq(data, Index(data, XmlMarker) + 1,
                                RIndex(data, PlistEnd) + Len(PlistEnd))

\* C8 witness: a successful run on an input with two `</plist>` after the
\* first `<?xml`, the output running to the second
C8_Witness ==
    /\ ExtractEnded /\ exitStatus = 0
    /\ Cardinality({j \in Occurrences(data, PlistEnd) : j > match.start}) >= 2
    /\ match.end = Len(data)

\* a failed run on an input that holds both markers, every `</plist>` before
\* the first `<?xml`
C8_FailureReached ==
    /\ ExtractEnded /\ exitStatus = 1
    /\ Contains(data, XmlMarker) /\ Contains(data, PlistEnd)

-----------------------------------------------------------------------------
(* C9 *)

\* C9 (as stated, its last clause): the input file is never modified: once
\* read, the file named by the first argument holds the bytes that were read.
C9_InputNeverModified ==
    InputRead => fs[input_file] = File(data)

\* C9 (amended): the extractor writes at most once, to the output path, in
\* the step that ends the run with status 0; a run that ends with another
\* status has changed no file; and the input file is never modified unless
\* the output path names the input file itself.
C9_Frame ==
    [][tool = "extract" =>
          /\ Len(writes') <= 1
          /\ fs' # fs \/ writes' # writes =>
                 /\ pc = "branch" /\ match.found
                 /\ pc' = "exit" /\ exitStatus' = 0
                 /\ writes = <<>> /\ writes' = <<output_file>>
                 /\ \A p \in (DOMAIN fs) \ {output_file} : fs'[p] = fs[p]
          /\ pc' = "exit" /\ exitStatus' # 0 => writes' = <<>> /\ fs' = fs
          /\ Len(argv) = 2 /\ input_file # output_file =>
                 fs'[input_file] = fs[input_file]]_vars

\* C9 witness: a successful run that wrote the span to an output path other
\* than the input path, the input file left as it was
C9_Witness ==
    /\ ExtractEnded /\ exitStatus = 0
    /\ input_file # output_file
    /\ writes = <<output_file>>
    /\ fs[input_file] = File(data)
    /\ fs[output_file].bytes # data

\* a failed run on a readable input: no file was written
C9_FailureReached ==
    /\ ExtractEnded /\ exitStatus = 1
    /\ writes = <<>>
    /\ fs[output_file].exists

-----------------------------------------------------------------------------
(* Vocabulary of the cleaner's properties *)

\* the characters the cleaner is to remove from the run
Formatting == {"\\", " ", "\r", "\n"}

\* the characters a run continues through
Allowed == Base64Alphabet \cup Formatting

IsBase64(c) == c \in Base64Alphabet

\* the content clean_rtf_to_base64 reads from the k-th file
ContentOf(k) == UniversalNewlines(fs[InPath(k)].bytes)

\* the offsets of s where `MII` is followed by an allowed character
RunStarts(s) ==
    {i \in 0..Len(s) :
        /\ OccursAt(s, Prefix, i)
        /\ i + Len(Prefix) < Len(s)
        /\ s[i + Len(Prefix) + 1] \in Allowed}

HasRun(s) == RunStarts(s) # {}

\* the run of s: from the first `MII` followed by an allowed character to
\* the first character outside the allowed class (or the end of s)
FirstRun(s) ==
    LET a == Min(RunStarts(s))
        b == Min({j \in (a + Len(Prefix))..Len(s) :
                     j = Len(s) \/ s[j + 1] \notin Allowed})
    IN  SubSeq(s, a + 1, b)

\* clean_rtf_to_base64 has returned for the file at fileIdx
Returned == tool = "clean" /\ pc = "branch"

\* the loop has finished its iteration for the k-th file
Reported(k) ==
    /\ tool = "clean"
    /\ fs[InPath(k)].exists
    /\ k < fileIdx \/ (k = fileIdx /\ pc \in {"for", "exit"})

\* the status lines printed for the k-th file
StatusLines(k) ==
    {n \in 1..Len(stdout) :
        /\ stdout[n].file = files[k]
        /\ stdout[n].msg \in {"Cleaned", "Failed to clean"}}

-----------------------------------------------------------------------------
(* C4 *)

\* C4: on a content holding `MII` followed by base64 characters mixed with
\* backslash, space and newline, clean_rtf_to_base64 returns the base64
\* characters of the run, in order, from `MII` on: the run with its
\* backslashes, spaces and newlines removed, nothing else removed or added.
C4_CleanedRun ==
    Returned /\ HasRun(ContentOf(fileIdx)) =>
        LET run == FirstRun(ContentOf(fileIdx))
        IN  /\ ~clean_b64.none
            /\ clean_b64.text = SelectSeq(run, IsBase64)
            /\ Len(run) - Len(clean_b64.text) =
                   Cardinality({n \in 1..Len(run) : run[n] \in Formatting})

\* C4 witness: a returned string shorter than its run, the run holding a
\* backslash, a space and a newline, and a base64 character after them
C4_Witness ==
    /\ Returned /\ HasRun(ContentOf(fileIdx))
    /\ LET run == FirstRun(ContentOf(fileIdx))
       IN  /\ \A c \in {"\\", " ", "\n"} : \E n \in 1..Len(run) : run[n] = c
           /\ run[Len(run)] \in Base64Alphabet
           /\ Len(clean_b64.text) > Len(Prefix)
           /\ Len(clean_b64.text) < Len(run)

-----------------------------------------------------------------------------
(* C5 *)

\* C5: for a file whose content has no `MII` followed by an allowed
\* character, clean_rtf_to_base64 returns None, no output file is written
\* for that file, and once the loop has handled the file the line
\* "Failed to clean <filename>" is printed for it, and no other status line.
C5_NoRunFails ==
    tool = "clean" =>
        \A k \in 1..Len(files) :
            fs[InPath(k)].exists /\ ~HasRun(ContentOf(k)) =>
                /\ k = fileIdx /\ pc = "branch" => clean_b64 = None
                /\ ~Written(OutPath(k))
                /\ Reported(k) =>
                       /\ Cardinality(StatusLines(k)) = 1
                       /\ \A n \in StatusLines(k) : stdout[n].msg = "Failed to clean"

\* C5 witness: the loop has handled a file that holds `MII` but no run (the
\* prefix is followed by a character outside the class, or by nothing)
C5_Witness ==
    /\ Reported(1)
    /\ Contains(ContentOf(1), Prefix)
    /\ ~HasRun(ContentOf(1))
    /\ Printed("Failed to clean")

-----------------------------------------------------------------------------
(* C6 *)

\* C6: a failure on one file (file not found, or no match) is reported by a
\* console message only and does not stop the run: when the script ends,
\* every file of the list has exactly one status line, the lines are in the
\* order of the list, and no exception was reported.
C6_EveryFileReported ==
    tool = "clean" /\ pc = "exit" =>
        /\ stderr = <<>>
        /\ exitStatus = 0
        /\ Len(stdout) = Len(files)
        /\ \A k \in 1..Len(files) :
               /\ stdout[k].file = files[k]
               /\ stdout[k].msg \in {"Cleaned", "Failed to clean"}

\* the part of C6 about a failed match: when no file of the list is missing,
\* every file gets exactly one status line, in the order of the list
C6_NoMatchDoesNotStop ==
    /\ tool = "clean" /\ pc = "exit"
    /\ \A k \in 1..Len(files) : fs[InPath(k)].exists
    => C6_EveryFileReported

-----------------------------------------------------------------------------
(* C7 *)

\* C7: an output that is produced is derived from the input: the extractor's
\* output is a non-empty contiguous slice data[s..e) of its input; the
\* cleaner's output is obtained from one contiguous run of its input file by
\* deleting characters only (the run starts with the first character of the
\* output and ends with its last).
C7_OutputFromInput ==
    /\ tool = "extract" /\ writes # <<>> =>
           \E s \in 0..Len(data) : \E e \in (s + 1)..Len(data) :
               fs[output_file] = File(SubSeq(data, s + 1, e))
    /\ tool = "clean" =>
           \A k \in 1..Len(files) :
               Written(OutPath(k)) =>
                   LET in  == fs[InPath(k)].bytes
                       out == fs[OutPath(k)].bytes
                   IN  /\ out # <<>>
                       /\ \E s \in 1..Len(in) : \E e \in s..Len(in) :
                              /\ in[s] = out[1]
                              /\ in[e] = out[Len(out)]
                              /\ IsSubsequence(out, SubSeq(in, s, e))
                              /\ \A n \in s..e : in[n] \in Allowed

\* C7 witness: the cleaner has written an output that is shorter than the run
\* of the input file it was taken from, the file holding a carriage return
C7_Witness ==
    /\ tool = "clean" /\ Written(OutPath(1))
    /\ Contains(fs[InPath(1)].bytes, <<"\r", "\n">>)
    /\ Len(fs[OutPath(1)].bytes) < Len(FirstRun(ContentOf(1)))

\* the extractor has written a proper slice of its input
C7_ExtractReached ==
    /\ tool = "extract" /\ writes # <<>>
    /\ Len(fs[output_file].bytes) < Len(data)

-----------------------------------------------------------------------------
(* C10 *)

\* the properties C10 asks of a cleaned string
CleanString(t) ==
    /\ t # <<>>
    /\ Len(t) >= Len(Prefix) /\ SubSeq(t, 1, Len(Prefix)) = Prefix
    /\ \A n \in 1..Len(t) : t[n] \in Base64Alphabet
    /\ \A n \in 1..Len(t) : t[n] \notin {"\\", " ", "\r", "\n"}

\* C10: a string returned by clean_rtf_to_base64, and so every output file
\* written, is non-empty, begins with `MII` and holds characters of the
\* base64 alphabet only; it is taken from the run that starts at the first
\* `MII` followed by an allowed character and stops at the first character
\* outside [A-Za-z0-9+/= \r\n\\].
C10_OutputAlphabet ==
    /\ Returned /\ ~clean_b64.none =>
           /\ CleanString(clean_b64.text)
           /\ HasRun(ContentOf(fileIdx))
           /\ IsSubsequence(clean_b64.text, FirstRun(ContentOf(fileIdx)))
           /\ Len(clean_b64.text) =
                  Cardinality({n \in 1..Len(FirstRun(ContentOf(fileIdx))) :
                                  FirstRun(ContentOf(fileIdx))[n] \in Base64Alphabet})
    /\ tool = "clean" =>
           \A k \in 1..Len(files) :
               Written(OutPath(k)) => CleanString(fs[OutPath(k)].bytes)

\* C10 witness: a string returned from a document whose first `MII` opens no
\* run, the run starting at a later `MII` and stopping before the end
C10_Witness ==
    /\ Returned /\ ~clean_b64.none
    /\ LET s == ContentOf(fileIdx)
       IN  /\ Min(Occurrences(s, Prefix)) < Min(RunStarts(s))
           /\ Len(clean_b64.text) > Len(Prefix)

====
